---- MODULE Spec2Model ----
(***************************************************************************)
(* A model of gaya_dq: the baseline store (gaya/baseline/store.py), the    *)
(* baseline-dependent rule functions (gaya/checks/volume.py,               *)
(* gaya/checks/schema.py) and the per-table run (gaya/runner.py).          *)
(*                                                                         *)
(* Strings that the code inspects character by character (table names) are *)
(* sequences of one-character strings.  Fractions (warn_pct, fail_pct,     *)
(* change_pct) are kept exact: a threshold is an integer number of         *)
(* hundredths, as gaya/config/loader.py produces them (n / 100), and a     *)
(* ratio is compared by cross-multiplication.                              *)
(***************************************************************************)
EXTENDS Integers, Sequences, FiniteSets, TLC

VARIABLES files, op, ret

vars == <<files, op, ret>>

(***************************************************************************)
(* Bounds of the model.                                                    *)
(***************************************************************************)
MaxRows == 1
MaxRunCount == 2

(***************************************************************************)
(* Program constants.                                                      *)
(***************************************************************************)
GAYA_VERSION == "0.1.0"

(***************************************************************************)
(* Input domains.                                                          *)
(***************************************************************************)
TableNames == { <<"o">>, <<"s", ".", "o">>, <<"s", "/", "o">> }

RowCounts == 0..MaxRows

Timestamps == {"t1", "t2"}

Schemas == { [a |-> "int"], [a |-> "str"], [a |-> "int", b |-> "str"] }

ColumnStats(name, dtype, row_count, null_count, distinct_count) ==
    [name |-> name, dtype |-> dtype, row_count |-> row_count,
     null_count |-> null_count, distinct_count |-> distinct_count]

ColumnsAt(ts) ==
    IF ts = "t1"
    THEN <<ColumnStats("a", "int", 2, 0, 2)>>
    ELSE <<ColumnStats("a", "int", 2, 0, 2), ColumnStats("b", "str", 2, 1, 1)>>

TableStats(table_name, layer, row_count, columns, schema, collected_at) ==
    [table_name |-> table_name, layer |-> layer, row_count |-> row_count,
     columns |-> columns, schema |-> schema, collected_at |-> collected_at]

StoreStats ==
    { TableStats(t, "staging", n, ColumnsAt(ts), s, ts) :
        t \in TableNames \ {<<"o">>}, n \in RowCounts, s \in Schemas, ts \in Timestamps }
    \cup
    { TableStats(<<"o">>, "staging", n, ColumnsAt("t1"), s, "t1") :
        n \in RowCounts, s \in Schemas }

(***************************************************************************)
(* Values.                                                                 *)
(***************************************************************************)
None == [kind |-> "None"]

Baseline(table_name, row_count, schema, run_at, run_count) ==
    [kind |-> "Baseline", table_name |-> table_name, row_count |-> row_count,
     schema |-> schema, run_at |-> run_at, run_count |-> run_count]

Return(v) == [kind |-> "return", value |-> v]

Raise(exc) == [kind |-> "raise", exc |-> exc]

(***************************************************************************)
(* The baseline directory: one file per sanitized name.  A file is absent  *)
(* or holds a text; a text either fails to parse as JSON or parses to a    *)
(* JSON value, which is an object (with its members) or something else.    *)
(***************************************************************************)
NoFile == [exists |-> FALSE]

File(text) == [exists |-> TRUE, text |-> text]

json_dumps(data) == [parse |-> "ok", value |-> [type |-> "object", members |-> data]]

NotJsonText == [parse |-> "JSONDecodeError"]

JsonArrayText == [parse |-> "ok", value |-> [type |-> "array"]]

TruncatedObjectText(t) == json_dumps([table_name |-> t])

OtherVersionText(t) ==
    json_dumps([table_name |-> t, row_count |-> 1, schema |-> [a |-> "int"],
                run_at |-> "t1", run_count |-> 1, gaya_version |-> "0.0.9"])

_path(table_name) ==
    [i \in 1..Len(table_name) |->
        IF table_name[i] \in {".", "/"} THEN "_" ELSE table_name[i]]

Paths == { _path(t) : t \in TableNames }

(***************************************************************************)
(* BaselineStore.load: None for a missing file, for a JSONDecodeError and  *)
(* for a KeyError; any other exception propagates.                         *)
(***************************************************************************)
load(fs, table_name) ==
    LET path == _path(table_name) IN
    IF ~fs[path].exists THEN Return(None)
    ELSE LET text == fs[path].text IN
         IF text.parse # "ok" THEN Return(None)
         ELSE LET data == text.value IN
              IF data.type # "object" THEN Raise("TypeError")
              ELSE IF ~({"table_name", "row_count", "schema", "run_at"}
                            \subseteq DOMAIN data.members)
                   THEN Return(None)
              ELSE Return(Baseline(data.members.table_name,
                                   data.members.row_count,
                                   data.members.schema,
                                   data.members.run_at,
                                   IF "run_count" \in DOMAIN data.members
                                   THEN data.members.run_count ELSE 1))

_has_changed_row_count_only(baseline, stats) ==
    baseline.row_count # stats.row_count

_has_changed_schema_only(baseline, stats) ==
    baseline.schema # stats.schema

_has_changed_names_only(baseline, stats) ==
    \/ baseline.row_count # stats.row_count
    \/ DOMAIN baseline.schema # DOMAIN stats.schema

_has_changed(baseline, stats) ==
    \/ baseline.row_count # stats.row_count
    \/ baseline.schema # stats.schema

save_run_count_not_incremented(fs, stats) ==
    LET path     == _path(stats.table_name)
        loaded   == load(fs, stats.table_name)
    IN
    IF loaded.kind = "raise" THEN [files |-> fs, ret |-> loaded, loads |-> 1]
    ELSE LET existing == loaded.value IN
         IF existing # None /\ ~_has_changed(existing, stats)
         THEN [files |-> fs, ret |-> Return(FALSE), loads |-> 1]
         ELSE LET run_count == IF existing # None THEN existing.run_count ELSE 1
                  data == [table_name   |-> stats.table_name,
                           row_count    |-> stats.row_count,
                           schema       |-> stats.schema,
                           run_at       |-> stats.collected_at,
                           run_count    |-> run_count,
                           gaya_version |-> GAYA_VERSION]
              IN [files |-> [fs EXCEPT ![path] = File(json_dumps(data))],
                  ret   |-> Return(TRUE),
                  loads |-> 1]

save_stores_safe_name(fs, stats) ==
    LET path     == _path(stats.table_name)
        loaded   == load(fs, stats.table_name)
    IN
    IF loaded.kind = "raise" THEN [files |-> fs, ret |-> loaded, loads |-> 1]
    ELSE LET existing == loaded.value IN
         IF existing # None /\ ~_has_changed(existing, stats)
         THEN [files |-> fs, ret |-> Return(FALSE), loads |-> 1]
         ELSE LET run_count == IF existing # None THEN existing.run_count + 1 ELSE 1
                  data == [table_name   |-> path,
                           row_count    |-> stats.row_count,
                           schema       |-> stats.schema,
                           run_at       |-> stats.collected_at,
                           run_count    |-> run_count,
                           gaya_version |-> GAYA_VERSION]
              IN [files |-> [fs EXCEPT ![path] = File(json_dumps(data))],
                  ret   |-> Return(TRUE),
                  loads |-> 1]

(***************************************************************************)
(* BaselineStore.save: the directory after the call and what the call      *)
(* returned (or raised).                                                   *)
(***************************************************************************)
save_keeps_first_baseline(fs, stats) ==
    LET path     == _path(stats.table_name)
        loaded   == load(fs, stats.table_name)
    IN
    IF loaded.kind = "raise" THEN [files |-> fs, ret |-> loaded, loads |-> 1]
    ELSE LET existing == loaded.value IN
         IF existing # None
         THEN [files |-> fs, ret |-> Return(FALSE), loads |-> 1]
         ELSE LET run_count == IF existing # None THEN existing.run_count + 1 ELSE 1
                  data == [table_name   |-> stats.table_name,
                           row_count    |-> stats.row_count,
                           schema       |-> stats.schema,
                           run_at       |-> stats.collected_at,
                           run_count    |-> run_count,
                           gaya_version |-> GAYA_VERSION]
              IN [files |-> [fs EXCEPT ![path] = File(json_dumps(data))],
                  ret   |-> Return(TRUE),
                  loads |-> 1]

save(fs, stats) ==
    LET path     == _path(stats.table_name)
        loaded   == load(fs, stats.table_name)
    IN
    IF loaded.kind = "raise" THEN [files |-> fs, ret |-> loaded, loads |-> 1]
    ELSE LET existing == loaded.value IN
         IF existing # None /\ ~_has_changed(existing, stats)
         THEN [files |-> fs, ret |-> Return(FALSE), loads |-> 1]
         ELSE LET run_count == IF existing # None THEN existing.run_count + 1 ELSE 1
                  data == [table_name   |-> stats.table_name,
                           row_count    |-> stats.row_count,
                           schema       |-> stats.schema,
                           run_at       |-> stats.collected_at,
                           run_count    |-> run_count,
                           gaya_version |-> GAYA_VERSION]
              IN [files |-> [fs EXCEPT ![path] = File(json_dumps(data))],
                  ret   |-> Return(TRUE),
                  loads |-> 1]

exists(fs, table_name) == fs[_path(table_name)].exists

delete(fs, table_name) ==
    LET path == _path(table_name) IN
    IF fs[path].exists
    THEN [files |-> [fs EXCEPT ![path] = NoFile], ret |-> Return(TRUE)]
    ELSE [files |-> fs, ret |-> Return(FALSE)]

list_tables(fs) == { p \in DOMAIN fs : fs[p].exists }

(***************************************************************************)
(* The stored run_count of a path, 0 when nothing loadable is stored.      *)
(***************************************************************************)
StoredRunCount(fs, table_name) ==
    LET l == load(fs, table_name) IN
    IF l.kind = "return" /\ l.value # None THEN l.value.run_count ELSE 0

(***************************************************************************)
(* CheckResult and its builders (gaya/checks/base.py).  An optional field  *)
(* is Unset or Set(v).  A message is the sequence of the fragments of its  *)
(* f-string; comma(n) and pct1(r) stand for a value formatted with {:,}    *)
(* and {:.1%}.                                                             *)
(***************************************************************************)
Unset == <<>>

Set(v) == <<v>>

comma(n) == [format |-> ",", value |-> n]

pct1(r) == [format |-> ".1%", value |-> r]

CheckResult(check, table, layer, status, message, column, expected, actual, hint) ==
    [check |-> check, table |-> table, layer |-> layer, status |-> status,
     message |-> message, column |-> column, expected |-> expected,
     actual |-> actual, hint |-> hint]

passed(check, table, layer, message, column, expected, actual, hint) ==
    CheckResult(check, table, layer, "PASS", message, column, expected, actual, hint)

warned(check, table, layer, message, column, expected, actual, hint) ==
    CheckResult(check, table, layer, "WARN", message, column, expected, actual, hint)

failed(check, table, layer, message, column, expected, actual, hint) ==
    CheckResult(check, table, layer, "FAIL", message, column, expected, actual, hint)

(***************************************************************************)
(* Arithmetic.  A true division yields the exact ratio or raises; a ratio  *)
(* is compared with a threshold given in hundredths.                       *)
(***************************************************************************)
abs(x) == IF x < 0 THEN -x ELSE x

max(x, y) == IF y > x THEN y ELSE x

truediv(n, d) ==
    IF d = 0 THEN Raise("ZeroDivisionError") ELSE Return([num |-> n, den |-> d])

ge(ratio, hundredths) == ratio.num * 100 >= hundredths * ratio.den

VolumeChangeConfig(warn_pct, fail_pct) == [warn_pct |-> warn_pct, fail_pct |-> fail_pct]

SchemaDriftConfig(baseline_columns) == [baseline_columns |-> baseline_columns]

(***************************************************************************)
(* Column names in the order in which Python compares the strings, and     *)
(* sorted() over a set of them.                                            *)
(***************************************************************************)
NameOrder == <<"a", "a|b", "b", "b|a", "c", "d">>

sorted(names) == SelectSeq(NameOrder, LAMBDA n : n \in names)

column_names(stats) == [i \in DOMAIN stats.columns |-> stats.columns[i].name]

(***************************************************************************)
(* gaya/checks/volume.py: check_volume_change.                             *)
(***************************************************************************)
check_volume_change_warn_first(stats, config, baseline) ==
    LET current == stats.row_count IN
    IF baseline = None
    THEN Return(<<passed("volume_change", stats.table_name, stats.layer,
                         <<"No baseline found for '", stats.table_name,
                           "'. Baseline set at ", comma(current),
                           " rows. Run again to detect volume changes.">>,
                         Unset, Unset, Set(comma(current)), Unset)>>)
    ELSE
    LET previous == baseline.row_count
        delta    == current - previous
        quotient == truediv(abs(delta), max(previous, 1))
    IN
    IF quotient.kind = "raise" THEN quotient
    ELSE
    LET change_pct == quotient.value
        direction  == IF delta > 0 THEN "increased" ELSE "dropped"
        sign       == IF delta > 0 THEN "+" ELSE "-"
        changed    == <<"Row count ", direction, " ", pct1(change_pct), " (",
                        comma(previous), " -> ", comma(current), ", ", sign,
                        comma(abs(delta)), " rows).">>
    IN
    IF ge(change_pct, config.warn_pct)
    THEN Return(<<warned("volume_change", stats.table_name, stats.layer, changed,
                         Unset,
                         Set(<<"< ", pct1(config.warn_pct), " change">>),
                         Set(<<pct1(change_pct), " ", direction>>),
                         Unset)>>)
    ELSE IF ge(change_pct, config.fail_pct)
    THEN Return(<<failed("volume_change", stats.table_name, stats.layer, changed,
                         Unset,
                         Set(<<"< ", pct1(config.fail_pct), " change">>),
                         Set(<<pct1(change_pct), " ", direction>>),
                         Set(IF delta < 0
                             THEN "A drop this large usually means a failed upstream load or a filter was applied unintentionally."
                             ELSE "A spike this large may indicate duplicate rows or a full reload."))>>)
    ELSE Return(<<passed("volume_change", stats.table_name, stats.layer,
                         <<"Row count stable: ", comma(previous), " -> ",
                           comma(current), " (", sign, comma(abs(delta)),
                           " rows, ", pct1(change_pct), " change).">>,
                         Unset, Unset, Set(<<pct1(change_pct), " change">>),
                         Unset)>>)

check_volume_change(stats, config, baseline) ==
    LET current == stats.row_count IN
    IF baseline = None
    THEN Return(<<passed("volume_change", stats.table_name, stats.layer,
                         <<"No baseline found for '", stats.table_name,
                           "'. Baseline set at ", comma(current),
                           " rows. Run again to detect volume changes.">>,
                         Unset, Unset, Set(comma(current)), Unset)>>)
    ELSE
    LET previous == baseline.row_count
        delta    == current - previous
        quotient == truediv(abs(delta), max(previous, 1))
    IN
    IF quotient.kind = "raise" THEN quotient
    ELSE
    LET change_pct == quotient.value
        direction  == IF delta > 0 THEN "increased" ELSE "dropped"
        sign       == IF delta > 0 THEN "+" ELSE "-"
        changed    == <<"Row count ", direction, " ", pct1(change_pct), " (",
                        comma(previous), " -> ", comma(current), ", ", sign,
                        comma(abs(delta)), " rows).">>
    IN
    IF ge(change_pct, config.fail_pct)
    THEN Return(<<failed("volume_change", stats.table_name, stats.layer, changed,
                         Unset,
                         Set(<<"< ", pct1(config.fail_pct), " change">>),
                         Set(<<pct1(change_pct), " ", direction>>),
                         Set(IF delta < 0
                             THEN "A drop this large usually means a failed upstream load or a filter was applied unintentionally."
                             ELSE "A spike this large may indicate duplicate rows or a full reload."))>>)
    ELSE IF ge(change_pct, config.warn_pct)
    THEN Return(<<warned("volume_change", stats.table_name, stats.layer, changed,
                         Unset,
                         Set(<<"< ", pct1(config.warn_pct), " change">>),
                         Set(<<pct1(change_pct), " ", direction>>),
                         Unset)>>)
    ELSE Return(<<passed("volume_change", stats.table_name, stats.layer,
                         <<"Row count stable: ", comma(previous), " -> ",
                           comma(current), " (", sign, comma(abs(delta)),
                           " rows, ", pct1(change_pct), " change).">>,
                         Unset, Unset, Set(<<pct1(change_pct), " change">>),
                         Unset)>>)

(***************************************************************************)
(* gaya/checks/schema.py: check_schema_drift.                              *)
(***************************************************************************)
check_schema_drift_absent_as_empty(stats, config, baseline) ==
    LET current_cols  == { stats.columns[i].name : i \in DOMAIN stats.columns }
        baseline_cols == IF baseline = None THEN {} ELSE DOMAIN baseline.schema
        added         == current_cols \ baseline_cols
        removed       == baseline_cols \ current_cols
    IN
    IF added = {} /\ removed = {}
    THEN Return(<<passed("schema_drift", stats.table_name, stats.layer,
                         <<"Schema unchanged. ", Cardinality(current_cols),
                           " columns match baseline.">>,
                         Unset, Unset, Unset, Unset)>>)
    ELSE Return(
        (IF removed # {}
         THEN <<failed("schema_drift", stats.table_name, stats.layer,
                       <<Cardinality(removed), " column(s) removed since last run: ",
                         sorted(removed), ".">>,
                       Unset, Set(sorted(baseline_cols)), Set(sorted(current_cols)),
                       Set("Removed columns break downstream SELECT * queries and any explicit column references. Verify this was intentional."))>>
         ELSE <<>>)
        \o
        (IF added # {}
         THEN <<warned("schema_drift", stats.table_name, stats.layer,
                       <<Cardinality(added), " new column(s) detected since last run: ",
                         sorted(added), ".">>,
                       Unset, Set(sorted(baseline_cols)), Set(sorted(current_cols)),
                       Set("New columns are usually safe, but verify they're intentional and documented."))>>
         ELSE <<>>))

check_schema_drift_added_first(stats, config, baseline) ==
    LET current_cols == { stats.columns[i].name : i \in DOMAIN stats.columns } IN
    IF baseline = None
    THEN Return(<<passed("schema_drift", stats.table_name, stats.layer,
                         <<"No baseline schema found for '", stats.table_name,
                           "'. Schema recorded with ", Cardinality(current_cols),
                           " columns. Run again to detect drift.">>,
                         Unset, Unset, Set(sorted(current_cols)), Unset)>>)
    ELSE
    LET baseline_cols == DOMAIN baseline.schema
        added         == current_cols \ baseline_cols
        removed       == baseline_cols \ current_cols
    IN
    IF added = {} /\ removed = {}
    THEN Return(<<passed("schema_drift", stats.table_name, stats.layer,
                         <<"Schema unchanged. ", Cardinality(current_cols),
                           " columns match baseline.">>,
                         Unset, Unset, Unset, Unset)>>)
    ELSE Return(
        (IF added # {}
         THEN <<warned("schema_drift", stats.table_name, stats.layer,
                       <<Cardinality(added), " new column(s) detected since last run: ",
                         sorted(added), ".">>,
                       Unset, Set(sorted(baseline_cols)), Set(sorted(current_cols)),
                       Set("New columns are usually safe, but verify they're intentional and documented."))>>
         ELSE <<>>)
        \o
        (IF removed # {}
         THEN <<failed("schema_drift", stats.table_name, stats.layer,
                       <<Cardinality(removed), " column(s) removed since last run: ",
                         sorted(removed), ".">>,
                       Unset, Set(sorted(baseline_cols)), Set(sorted(current_cols)),
                       Set("Removed columns break downstream SELECT * queries and any explicit column references. Verify this was intentional."))>>
         ELSE <<>>))

check_schema_drift(stats, config, baseline) ==
    LET current_cols == { stats.columns[i].name : i \in DOMAIN stats.columns } IN
    IF baseline = None
    THEN Return(<<passed("schema_drift", stats.table_name, stats.layer,
                         <<"No baseline schema found for '", stats.table_name,
                           "'. Schema recorded with ", Cardinality(current_cols),
                           " columns. Run again to detect drift.">>,
                         Unset, Unset, Set(sorted(current_cols)), Unset)>>)
    ELSE
    LET baseline_cols == DOMAIN baseline.schema
        added         == current_cols \ baseline_cols
        removed       == baseline_cols \ current_cols
    IN
    IF added = {} /\ removed = {}
    THEN Return(<<passed("schema_drift", stats.table_name, stats.layer,
                         <<"Schema unchanged. ", Cardinality(current_cols),
                           " columns match baseline.">>,
                         Unset, Unset, Unset, Unset)>>)
    ELSE Return(
        (IF removed # {}
         THEN <<failed("schema_drift", stats.table_name, stats.layer,
                       <<Cardinality(removed), " column(s) removed since last run: ",
                         sorted(removed), ".">>,
                       Unset, Set(sorted(baseline_cols)), Set(sorted(current_cols)),
                       Set("Removed columns break downstream SELECT * queries and any explicit column references. Verify this was intentional."))>>
         ELSE <<>>)
        \o
        (IF added # {}
         THEN <<warned("schema_drift", stats.table_name, stats.layer,
                       <<Cardinality(added), " new column(s) detected since last run: ",
                         sorted(added), ".">>,
                       Unset, Set(sorted(baseline_cols)), Set(sorted(current_cols)),
                       Set("New columns are usually safe, but verify they're intentional and documented."))>>
         ELSE <<>>))

(***************************************************************************)
(* TableStats.column, ColumnStats.null_pct and the configuration types     *)
(* (gaya/checks/base.py).  An optional configuration field is Unset or     *)
(* Set(v).                                                                 *)
(***************************************************************************)
column(stats, name) ==
    IF \E i \in DOMAIN stats.columns : stats.columns[i].name = name
    THEN stats.columns[CHOOSE i \in DOMAIN stats.columns :
                          /\ stats.columns[i].name = name
                          /\ \A j \in 1..(i - 1) : stats.columns[j].name # name]
    ELSE None

null_pct_as_percent(col) ==
    IF col.row_count = 0 THEN [num |-> 0, den |-> 1]
    ELSE [num |-> col.null_count * 100, den |-> col.row_count]

null_pct(col) ==
    IF col.row_count = 0 THEN [num |-> 0, den |-> 1]
    ELSE [num |-> col.null_count, den |-> col.row_count]

NullConfig(columns, warn_pct, fail_pct) ==
    [columns |-> columns, warn_pct |-> warn_pct, fail_pct |-> fail_pct]

RequiredConfig(columns) == [columns |-> columns]

UniqueConfig(columns) == [columns |-> columns]

RowCountConfig(min_rows, max_rows) == [min_rows |-> min_rows, max_rows |-> max_rows]

SchemaConfig(expected) == [expected |-> expected]

DefaultNullConfig == NullConfig(Unset, 10, 25)

DefaultVolumeChangeConfig == VolumeChangeConfig(20, 40)

(***************************************************************************)
(* gaya/checks/completeness.py.                                            *)
(***************************************************************************)
check_null_rate(stats, config) ==
    LET columns_to_check ==
            IF config.columns # Unset /\ config.columns[1] # <<>>
            THEN [i \in DOMAIN config.columns[1] |-> column(stats, config.columns[1][i])]
            ELSE stats.columns
        one(col) ==
            IF col = None
            THEN failed("null_rate", stats.table_name, stats.layer,
                        <<"Column specified in null check does not exist in table.">>,
                        Set("unknown"), Unset, Unset,
                        Set("Check your gaya.yml - column name may be misspelled."))
            ELSE LET pct == null_pct(col) IN
                 IF pct.num = 0
                 THEN passed("null_rate", stats.table_name, stats.layer,
                             <<"'", col.name, "' has no nulls.">>,
                             Set(col.name), Unset, Set(pct1(pct)), Unset)
                 ELSE IF ge(pct, config.fail_pct)
                 THEN failed("null_rate", stats.table_name, stats.layer,
                             <<"'", col.name, "' is ", pct1(pct),
                               " null - exceeds fail threshold of ",
                               pct1(config.fail_pct), ".">>,
                             Set(col.name), Set(<<"< ", pct1(config.fail_pct)>>),
                             Set(pct1(pct)), Unset)
                 ELSE IF ge(pct, config.warn_pct)
                 THEN warned("null_rate", stats.table_name, stats.layer,
                             <<"'", col.name, "' is ", pct1(pct),
                               " null - above warn threshold of ",
                               pct1(config.warn_pct), ".">>,
                             Set(col.name), Set(<<"< ", pct1(config.warn_pct)>>),
                             Set(pct1(pct)), Unset)
                 ELSE passed("null_rate", stats.table_name, stats.layer,
                             <<"'", col.name, "' null rate ", pct1(pct),
                               " is within threshold.">>,
                             Set(col.name), Unset, Set(pct1(pct)), Unset)
    IN Return([i \in DOMAIN columns_to_check |-> one(columns_to_check[i])])

check_required_columns_skips_missing(stats, config) ==
    LET one(col_name) ==
            LET col == column(stats, col_name) IN
            IF col = None
            THEN failed("required_columns", stats.table_name, stats.layer,
                        <<"Required column '", col_name,
                          "' is missing from the table entirely.">>,
                        Set(col_name), Unset, Unset,
                        Set("Verify the column exists in the source and hasn't been renamed."))
            ELSE IF col.null_count > 0
            THEN failed("required_columns", stats.table_name, stats.layer,
                        <<"Required column '", col_name, "' has ",
                          comma(col.null_count), " null(s) (", pct1(null_pct(col)),
                          " of ", comma(stats.row_count), " rows).">>,
                        Set(col_name), Set(0), Set(col.null_count),
                        Set("This column is marked required - nulls here indicate an upstream issue."))
            ELSE passed("required_columns", stats.table_name, stats.layer,
                        <<"Required column '", col_name, "' is complete.">>,
                        Set(col_name), Unset, Unset, Unset)
        present == SelectSeq(config.columns, LAMBDA n : column(stats, n) # None)
    IN Return([i \in DOMAIN present |-> one(present[i])])

check_required_columns(stats, config) ==
    LET one(col_name) ==
            LET col == column(stats, col_name) IN
            IF col = None
            THEN failed("required_columns", stats.table_name, stats.layer,
                        <<"Required column '", col_name,
                          "' is missing from the table entirely.">>,
                        Set(col_name), Unset, Unset,
                        Set("Verify the column exists in the source and hasn't been renamed."))
            ELSE IF col.null_count > 0
            THEN failed("required_columns", stats.table_name, stats.layer,
                        <<"Required column '", col_name, "' has ",
                          comma(col.null_count), " null(s) (", pct1(null_pct(col)),
                          " of ", comma(stats.row_count), " rows).">>,
                        Set(col_name), Set(0), Set(col.null_count),
                        Set("This column is marked required - nulls here indicate an upstream issue."))
            ELSE passed("required_columns", stats.table_name, stats.layer,
                        <<"Required column '", col_name, "' is complete.">>,
                        Set(col_name), Unset, Unset, Unset)
    IN Return([i \in DOMAIN config.columns |-> one(config.columns[i])])

(***************************************************************************)
(* gaya/checks/uniqueness.py.                                              *)
(***************************************************************************)
RECURSIVE join(_, _)
join(sep, names) ==
    IF names = <<>> THEN ""
    ELSE IF Len(names) = 1 THEN names[1]
    ELSE names[1] \o sep \o join(sep, Tail(names))

check_unique_table_row_count(stats, config) ==
    IF Len(config.columns) = 1
    THEN LET col_name == config.columns[1]
             col      == column(stats, col_name)
         IN
         IF col = None
         THEN Return(<<failed("unique", stats.table_name, stats.layer,
                              <<"Column '", col_name,
                                "' specified for uniqueness check does not exist.">>,
                              Set(col_name), Unset, Unset,
                              Set("Check your gaya.yml for a misspelled column name."))>>)
         ELSE LET duplicates == stats.row_count - col.distinct_count IN
              IF duplicates > 0
              THEN Return(<<failed("unique", stats.table_name, stats.layer,
                                   <<"'", col_name, "' has ", comma(duplicates),
                                     " duplicate value(s) across ", comma(col.row_count),
                                     " rows (", comma(col.distinct_count), " distinct).">>,
                                   Set(col_name), Set("all distinct"),
                                   Set(<<comma(duplicates), " duplicates">>),
                                   Set("Duplicates in a key column usually indicate a pipeline loading the same records more than once."))>>)
              ELSE Return(<<passed("unique", stats.table_name, stats.layer,
                                   <<"'", col_name, "' is fully unique (",
                                     comma(col.distinct_count), " distinct values).">>,
                                   Set(col_name), Unset, Unset, Unset)>>)
    ELSE LET composite_name == join("|", config.columns)
             col            == column(stats, composite_name)
         IN
         IF col = None
         THEN Return(<<failed("unique", stats.table_name, stats.layer,
                              <<"Composite key uniqueness check requires columns ",
                                config.columns,
                                " - one or more are missing from the table.">>,
                              Set(composite_name), Unset, Unset,
                              Set("Verify all composite key columns exist in the table."))>>)
         ELSE LET duplicates == col.row_count - col.distinct_count IN
              IF duplicates > 0
              THEN Return(<<failed("unique", stats.table_name, stats.layer,
                                   <<"Composite key ", config.columns, " has ",
                                     comma(duplicates),
                                     " duplicate combination(s) across ",
                                     comma(col.row_count), " rows.">>,
                                   Set(composite_name), Set("all distinct"),
                                   Set(<<comma(duplicates), " duplicate combinations">>),
                                   Set("Composite key duplicates may indicate a missing deduplication step or an unintended cross-join upstream."))>>)
              ELSE Return(<<passed("unique", stats.table_name, stats.layer,
                                   <<"Composite key ", config.columns,
                                     " is fully unique (", comma(col.distinct_count),
                                     " distinct combinations).">>,
                                   Set(composite_name), Unset, Unset, Unset)>>)

check_unique_comma_joined(stats, config) ==
    IF Len(config.columns) = 1
    THEN LET col_name == config.columns[1]
             col      == column(stats, col_name)
         IN
         IF col = None
         THEN Return(<<failed("unique", stats.table_name, stats.layer,
                              <<"Column '", col_name,
                                "' specified for uniqueness check does not exist.">>,
                              Set(col_name), Unset, Unset,
                              Set("Check your gaya.yml for a misspelled column name."))>>)
         ELSE LET duplicates == col.row_count - col.distinct_count IN
              IF duplicates > 0
              THEN Return(<<failed("unique", stats.table_name, stats.layer,
                                   <<"'", col_name, "' has ", comma(duplicates),
                                     " duplicate value(s) across ", comma(col.row_count),
                                     " rows (", comma(col.distinct_count), " distinct).">>,
                                   Set(col_name), Set("all distinct"),
                                   Set(<<comma(duplicates), " duplicates">>),
                                   Set("Duplicates in a key column usually indicate a pipeline loading the same records more than once."))>>)
              ELSE Return(<<passed("unique", stats.table_name, stats.layer,
                                   <<"'", col_name, "' is fully unique (",
                                     comma(col.distinct_count), " distinct values).">>,
                                   Set(col_name), Unset, Unset, Unset)>>)
    ELSE LET composite_name == join(",", config.columns)
             col            == column(stats, composite_name)
         IN
         IF col = None
         THEN Return(<<failed("unique", stats.table_name, stats.layer,
                              <<"Composite key uniqueness check requires columns ",
                                config.columns,
                                " - one or more are missing from the table.">>,
                              Set(composite_name), Unset, Unset,
                              Set("Verify all composite key columns exist in the table."))>>)
         ELSE LET duplicates == col.row_count - col.distinct_count IN
              IF duplicates > 0
              THEN Return(<<failed("unique", stats.table_name, stats.layer,
                                   <<"Composite key ", config.columns, " has ",
                                     comma(duplicates),
                                     " duplicate combination(s) across ",
                                     comma(col.row_count), " rows.">>,
                                   Set(composite_name), Set("all distinct"),
                                   Set(<<comma(duplicates), " duplicate combinations">>),
                                   Set("Composite key duplicates may indicate a missing deduplication step or an unintended cross-join upstream."))>>)
              ELSE Return(<<passed("unique", stats.table_name, stats.layer,
                                   <<"Composite key ", config.columns,
                                     " is fully unique (", comma(col.distinct_count),
                                     " distinct combinations).">>,
                                   Set(composite_name), Unset, Unset, Unset)>>)

check_unique(stats, config) ==
    IF Len(config.columns) = 1
    THEN LET col_name == config.columns[1]
             col      == column(stats, col_name)
         IN
         IF col = None
         THEN Return(<<failed("unique", stats.table_name, stats.layer,
                              <<"Column '", col_name,
                                "' specified for uniqueness check does not exist.">>,
                              Set(col_name), Unset, Unset,
                              Set("Check your gaya.yml for a misspelled column name."))>>)
         ELSE LET duplicates == col.row_count - col.distinct_count IN
              IF duplicates > 0
              THEN Return(<<failed("unique", stats.table_name, stats.layer,
                                   <<"'", col_name, "' has ", comma(duplicates),
                                     " duplicate value(s) across ", comma(col.row_count),
                                     " rows (", comma(col.distinct_count), " distinct).">>,
                                   Set(col_name), Set("all distinct"),
                                   Set(<<comma(duplicates), " duplicates">>),
                                   Set("Duplicates in a key column usually indicate a pipeline loading the same records more than once."))>>)
              ELSE Return(<<passed("unique", stats.table_name, stats.layer,
                                   <<"'", col_name, "' is fully unique (",
                                     comma(col.distinct_count), " distinct values).">>,
                                   Set(col_name), Unset, Unset, Unset)>>)
    ELSE LET composite_name == join("|", config.columns)
             col            == column(stats, composite_name)
         IN
         IF col = None
         THEN Return(<<failed("unique", stats.table_name, stats.layer,
                              <<"Composite key uniqueness check requires columns ",
                                config.columns,
                                " - one or more are missing from the table.">>,
                              Set(composite_name), Unset, Unset,
                              Set("Verify all composite key columns exist in the table."))>>)
         ELSE LET duplicates == col.row_count - col.distinct_count IN
              IF duplicates > 0
              THEN Return(<<failed("unique", stats.table_name, stats.layer,
                                   <<"Composite key ", config.columns, " has ",
                                     comma(duplicates),
                                     " duplicate combination(s) across ",
                                     comma(col.row_count), " rows.">>,
                                   Set(composite_name), Set("all distinct"),
                                   Set(<<comma(duplicates), " duplicate combinations">>),
                                   Set("Composite key duplicates may indicate a missing deduplication step or an unintended cross-join upstream."))>>)
              ELSE Return(<<passed("unique", stats.table_name, stats.layer,
                                   <<"Composite key ", config.columns,
                                     " is fully unique (", comma(col.distinct_count),
                                     " distinct combinations).">>,
                                   Set(composite_name), Unset, Unset, Unset)>>)

(***************************************************************************)
(* gaya/checks/volume.py: check_row_count.                                 *)
(***************************************************************************)
check_row_count_bound_excluded(stats, config) ==
    LET count == stats.row_count IN
    IF config.min_rows # Unset /\ count <= config.min_rows[1]
    THEN Return(<<failed("row_count", stats.table_name, stats.layer,
                         <<"Row count ", comma(count), " is below minimum ",
                           comma(config.min_rows[1]), ".">>,
                         Unset, Set(<<">= ", comma(config.min_rows[1])>>),
                         Set(comma(count)),
                         Set("The table may not have loaded correctly or the source is empty."))>>)
    ELSE IF config.max_rows # Unset /\ count > config.max_rows[1]
    THEN Return(<<failed("row_count", stats.table_name, stats.layer,
                         <<"Row count ", comma(count), " exceeds maximum ",
                           comma(config.max_rows[1]), ".">>,
                         Unset, Set(<<"<= ", comma(config.max_rows[1])>>),
                         Set(comma(count)),
                         Set("This may indicate duplicate rows or an unintended full reload."))>>)
    ELSE Return(<<passed("row_count", stats.table_name, stats.layer,
                         <<"Row count ", comma(count), " is within expected range.">>,
                         Unset, Unset, Set(comma(count)), Unset)>>)

check_row_count(stats, config) ==
    LET count == stats.row_count IN
    IF config.min_rows # Unset /\ count < config.min_rows[1]
    THEN Return(<<failed("row_count", stats.table_name, stats.layer,
                         <<"Row count ", comma(count), " is below minimum ",
                           comma(config.min_rows[1]), ".">>,
                         Unset, Set(<<">= ", comma(config.min_rows[1])>>),
                         Set(comma(count)),
                         Set("The table may not have loaded correctly or the source is empty."))>>)
    ELSE IF config.max_rows # Unset /\ count > config.max_rows[1]
    THEN Return(<<failed("row_count", stats.table_name, stats.layer,
                         <<"Row count ", comma(count), " exceeds maximum ",
                           comma(config.max_rows[1]), ".">>,
                         Unset, Set(<<"<= ", comma(config.max_rows[1])>>),
                         Set(comma(count)),
                         Set("This may indicate duplicate rows or an unintended full reload."))>>)
    ELSE Return(<<passed("row_count", stats.table_name, stats.layer,
                         <<"Row count ", comma(count), " is within expected range.">>,
                         Unset, Unset, Set(comma(count)), Unset)>>)

(***************************************************************************)
(* gaya/checks/schema.py: check_schema.  The expected mapping is the       *)
(* sequence of its (column, type) items in insertion order; lower() is     *)
(* str.lower over the type strings in use.                                 *)
(***************************************************************************)
lower_unchanged(dtype) == dtype

lower(dtype) ==
    CASE dtype = "INT" -> "int"
      [] dtype = "Str" -> "str"
      [] dtype = "STR" -> "str"
      [] OTHER -> dtype

check_schema(stats, config) ==
    LET one(item) ==
            LET col_name       == item[1]
                expected_dtype == item[2]
            IN
            IF col_name \notin DOMAIN stats.schema
            THEN failed("schema", stats.table_name, stats.layer,
                        <<"Expected column '", col_name, "' (", expected_dtype,
                          ") is missing from the table.">>,
                        Set(col_name), Set(expected_dtype), Unset,
                        Set("Column may have been dropped or renamed upstream."))
            ELSE LET actual_dtype == stats.schema[col_name] IN
                 IF lower(actual_dtype) # lower(expected_dtype)
                 THEN failed("schema", stats.table_name, stats.layer,
                             <<"'", col_name, "' type mismatch: expected '",
                               expected_dtype, "', found '", actual_dtype, "'.">>,
                             Set(col_name), Set(expected_dtype), Set(actual_dtype),
                             Set("A dtype change can silently break downstream queries. Verify this was intentional."))
                 ELSE passed("schema", stats.table_name, stats.layer,
                             <<"'", col_name, "' is '", actual_dtype, "' as expected.">>,
                             Set(col_name), Set(expected_dtype), Set(actual_dtype), Unset)
    IN Return([i \in DOMAIN config.expected |-> one(config.expected[i])])

(***************************************************************************)
(* gaya/runner.py: TableConfig, RunResult and Runner.run.  run gives the   *)
(* directory after the run and the RunResult returned (or the exception    *)
(* raised).                                                                *)
(***************************************************************************)
TableConfig(table, layer, source, null, required, unique, row_count, volume, schema, drift, run_null_check, run_volume_check, run_drift_check) ==
    [table |-> table, layer |-> layer, source |-> source, null |-> null,
     required |-> required, unique |-> unique, row_count |-> row_count,
     volume |-> volume, schema |-> schema, drift |-> drift,
     run_null_check |-> run_null_check, run_volume_check |-> run_volume_check,
     run_drift_check |-> run_drift_check]

RunResult(table, layer, results, baseline_updated, error) ==
    [table |-> table, layer |-> layer, results |-> results,
     baseline_updated |-> baseline_updated, error |-> error]

failures(result) == SelectSeq(result.results, LAMBDA r : r.status = "FAIL")

warnings(result) == SelectSeq(result.results, LAMBDA r : r.status = "WARN")

has_failures(result) == failures(result) # <<>>

has_warnings(result) == warnings(result) # <<>>

overall_status_warn_first(result) ==
    IF warnings(result) # <<>> THEN "WARN"
    ELSE IF failures(result) # <<>> THEN "FAIL"
    ELSE "PASS"

overall_status(result) ==
    IF failures(result) # <<>> THEN "FAIL"
    ELSE IF warnings(result) # <<>> THEN "WARN"
    ELSE "PASS"

extend_prepends(results, outcome) ==
    IF results.kind = "raise" THEN results
    ELSE IF outcome.kind = "raise" THEN outcome
    ELSE Return(outcome.value \o results.value)

extend(results, outcome) ==
    IF results.kind = "raise" THEN results
    ELSE IF outcome.kind = "raise" THEN outcome
    ELSE Return(results.value \o outcome.value)

(***************************************************************************)
(* The store of a Runner is a BaselineStore or, in a dry run, the          *)
(* _DryRunStore of cli.py, which overrides save; store_save is the save    *)
(* the runner's store dispatches to.                                       *)
(***************************************************************************)
_DryRunStore_save_writes(fs, stats) == save(fs, stats)

_DryRunStore_save(fs, stats) == [files |-> fs, ret |-> Return(FALSE), loads |-> 0]

store_save(store, fs, stats) ==
    IF store = "_DryRunStore" THEN _DryRunStore_save(fs, stats) ELSE save(fs, stats)

Runner_run(store, fs, stats, config) ==
    LET loaded == load(fs, stats.table_name) IN
    IF loaded.kind = "raise"
    THEN [files |-> fs, ret |-> loaded, calls |-> <<"load">>, loads |-> 1]
    ELSE
    LET baseline == loaded.value
        r0 == Return(<<>>)
        r1 == IF config.schema # Unset
              THEN extend(r0, check_schema(stats, config.schema[1])) ELSE r0
        drift_config ==
              IF config.drift # Unset THEN config.drift[1]
              ELSE SchemaDriftConfig(IF baseline # None
                                     THEN sorted(DOMAIN baseline.schema) ELSE <<>>)
        r2 == IF config.run_drift_check
              THEN extend(r1, check_schema_drift(stats, drift_config, baseline)) ELSE r1
        null_config ==
              IF config.null # Unset THEN config.null[1] ELSE DefaultNullConfig
        r3 == IF config.run_null_check
              THEN extend(r2, check_null_rate(stats, null_config)) ELSE r2
        r4 == IF config.required # Unset
              THEN extend(r3, check_required_columns(stats, config.required[1])) ELSE r3
        r5 == IF config.unique # Unset
              THEN extend(r4, check_unique(stats, config.unique[1])) ELSE r4
        r6 == IF config.row_count # Unset
              THEN extend(r5, check_row_count(stats, config.row_count[1])) ELSE r5
        volume_config ==
              IF config.volume # Unset THEN config.volume[1]
              ELSE DefaultVolumeChangeConfig
        r7 == IF config.run_volume_check
              THEN extend(r6, check_volume_change(stats, volume_config, baseline)) ELSE r6
        checks ==
              (IF config.schema # Unset THEN <<"check_schema">> ELSE <<>>)
              \o (IF config.run_drift_check THEN <<"check_schema_drift">> ELSE <<>>)
              \o (IF config.run_null_check THEN <<"check_null_rate">> ELSE <<>>)
              \o (IF config.required # Unset THEN <<"check_required_columns">> ELSE <<>>)
              \o (IF config.unique # Unset THEN <<"check_unique">> ELSE <<>>)
              \o (IF config.row_count # Unset THEN <<"check_row_count">> ELSE <<>>)
              \o (IF config.run_volume_check THEN <<"check_volume_change">> ELSE <<>>)
    IN
    IF r7.kind = "raise"
    THEN [files |-> fs, ret |-> r7, calls |-> <<"load">> \o checks, loads |-> 1]
    ELSE
    LET saved == store_save(store, fs, stats)
        calls == <<"load">> \o checks \o <<"save">>
    IN
    IF saved.ret.kind = "raise"
    THEN [files |-> saved.files, ret |-> saved.ret, calls |-> calls,
          loads |-> 1 + saved.loads]
    ELSE [files |-> saved.files,
          ret   |-> Return(RunResult(stats.table_name, stats.layer, r7.value,
                                     saved.ret.value, Unset)),
          calls |-> calls,
          loads |-> 1 + saved.loads]

run_volume_without_baseline(fs, stats, config) ==
    LET loaded == load(fs, stats.table_name) IN
    IF loaded.kind = "raise"
    THEN [files |-> fs, ret |-> loaded, calls |-> <<"load">>, loads |-> 1]
    ELSE
    LET baseline == loaded.value
        r0 == Return(<<>>)
        r1 == IF config.schema # Unset
              THEN extend(r0, check_schema(stats, config.schema[1])) ELSE r0
        drift_config ==
              IF config.drift # Unset THEN config.drift[1]
              ELSE SchemaDriftConfig(IF baseline # None
                                     THEN sorted(DOMAIN baseline.schema) ELSE <<>>)
        r2 == IF config.run_drift_check
              THEN extend(r1, check_schema_drift(stats, drift_config, baseline)) ELSE r1
        null_config ==
              IF config.null # Unset THEN config.null[1] ELSE DefaultNullConfig
        r3 == IF config.run_null_check
              THEN extend(r2, check_null_rate(stats, null_config)) ELSE r2
        r4 == IF config.required # Unset
              THEN extend(r3, check_required_columns(stats, config.required[1])) ELSE r3
        r5 == IF config.unique # Unset
              THEN extend(r4, check_unique(stats, config.unique[1])) ELSE r4
        r6 == IF config.row_count # Unset
              THEN extend(r5, check_row_count(stats, config.row_count[1])) ELSE r5
        volume_config ==
              IF config.volume # Unset THEN config.volume[1]
              ELSE DefaultVolumeChangeConfig
        r7 == IF config.run_volume_check
              THEN extend(r6, check_volume_change(stats, volume_config, None)) ELSE r6
        checks ==
              (IF config.schema # Unset THEN <<"check_schema">> ELSE <<>>)
              \o (IF config.run_drift_check THEN <<"check_schema_drift">> ELSE <<>>)
              \o (IF config.run_null_check THEN <<"check_null_rate">> ELSE <<>>)
              \o (IF config.required # Unset THEN <<"check_required_columns">> ELSE <<>>)
              \o (IF config.unique # Unset THEN <<"check_unique">> ELSE <<>>)
              \o (IF config.row_count # Unset THEN <<"check_row_count">> ELSE <<>>)
              \o (IF config.run_volume_check THEN <<"check_volume_change">> ELSE <<>>)
    IN
    IF r7.kind = "raise"
    THEN [files |-> fs, ret |-> r7, calls |-> <<"load">> \o checks, loads |-> 1]
    ELSE
    LET saved == save(fs, stats)
        calls == <<"load">> \o checks \o <<"save">>
    IN
    IF saved.ret.kind = "raise"
    THEN [files |-> saved.files, ret |-> saved.ret, calls |-> calls,
          loads |-> 1 + saved.loads]
    ELSE [files |-> saved.files,
          ret   |-> Return(RunResult(stats.table_name, stats.layer, r7.value,
                                     saved.ret.value, Unset)),
          calls |-> calls,
          loads |-> 1 + saved.loads]

run_saves_only_without_failures(fs, stats, config) ==
    LET loaded == load(fs, stats.table_name) IN
    IF loaded.kind = "raise"
    THEN [files |-> fs, ret |-> loaded, calls |-> <<"load">>, loads |-> 1]
    ELSE
    LET baseline == loaded.value
        r0 == Return(<<>>)
        r1 == IF config.schema # Unset
              THEN extend(r0, check_schema(stats, config.schema[1])) ELSE r0
        drift_config ==
              IF config.drift # Unset THEN config.drift[1]
              ELSE SchemaDriftConfig(IF baseline # None
                                     THEN sorted(DOMAIN baseline.schema) ELSE <<>>)
        r2 == IF config.run_drift_check
              THEN extend(r1, check_schema_drift(stats, drift_config, baseline)) ELSE r1
        null_config ==
              IF config.null # Unset THEN config.null[1] ELSE DefaultNullConfig
        r3 == IF config.run_null_check
              THEN extend(r2, check_null_rate(stats, null_config)) ELSE r2
        r4 == IF config.required # Unset
              THEN extend(r3, check_required_columns(stats, config.required[1])) ELSE r3
        r5 == IF config.unique # Unset
              THEN extend(r4, check_unique(stats, config.unique[1])) ELSE r4
        r6 == IF config.row_count # Unset
              THEN extend(r5, check_row_count(stats, config.row_count[1])) ELSE r5
        volume_config ==
              IF config.volume # Unset THEN config.volume[1]
              ELSE DefaultVolumeChangeConfig
        r7 == IF config.run_volume_check
              THEN extend(r6, check_volume_change(stats, volume_config, baseline)) ELSE r6
        checks ==
              (IF config.schema # Unset THEN <<"check_schema">> ELSE <<>>)
              \o (IF config.run_drift_check THEN <<"check_schema_drift">> ELSE <<>>)
              \o (IF config.run_null_check THEN <<"check_null_rate">> ELSE <<>>)
              \o (IF config.required # Unset THEN <<"check_required_columns">> ELSE <<>>)
              \o (IF config.unique # Unset THEN <<"check_unique">> ELSE <<>>)
              \o (IF config.row_count # Unset THEN <<"check_row_count">> ELSE <<>>)
              \o (IF config.run_volume_check THEN <<"check_volume_change">> ELSE <<>>)
    IN
    IF r7.kind = "raise"
    THEN [files |-> fs, ret |-> r7, calls |-> <<"load">> \o checks, loads |-> 1]
    ELSE
    IF \E i \in DOMAIN r7.value : r7.value[i].status = "FAIL"
    THEN [files |-> fs,
          ret   |-> Return(RunResult(stats.table_name, stats.layer, r7.value,
                                     FALSE, Unset)),
          calls |-> <<"load">> \o checks, loads |-> 1]
    ELSE
    LET saved == save(fs, stats)
        calls == <<"load">> \o checks \o <<"save">>
    IN
    IF saved.ret.kind = "raise"
    THEN [files |-> saved.files, ret |-> saved.ret, calls |-> calls,
          loads |-> 1 + saved.loads]
    ELSE [files |-> saved.files,
          ret   |-> Return(RunResult(stats.table_name, stats.layer, r7.value,
                                     saved.ret.value, Unset)),
          calls |-> calls,
          loads |-> 1 + saved.loads]

run(fs, stats, config) == Runner_run("BaselineStore", fs, stats, config)

(***************************************************************************)
(* cli.py: _run_table and _cmd_run, and RunSummary.exit_code                *)
(* (gaya/output/reporter.py).  The collection of a table's statistics is   *)
(* given as its outcome: Return(stats) or Raise(exception); an exception   *)
(* of the collection carries its message, and str gives that message.      *)
(* _cmd_run gives the directory after the batch, the RunResults in the     *)
(* order of the table configurations and the exit code of the process.     *)
(***************************************************************************)
Exception(type, message) == [type |-> type, message |-> message]

str(exc) == exc.message

_run_table_error_not_caught(fs, config, collected, dry_run) ==
    IF collected.kind = "raise"
    THEN [files |-> fs, ret |-> collected, calls |-> <<>>, loads |-> 0]
    ELSE IF dry_run
    THEN Runner_run("_DryRunStore", fs, collected.value, config)
    ELSE run(fs, collected.value, config)

_run_table(fs, config, collected, dry_run) ==
    IF collected.kind = "raise"
    THEN [files |-> fs,
          ret   |-> Return(RunResult(config.table, config.layer, <<>>, FALSE,
                                     Set(str(collected.exc)))),
          calls |-> <<>>,
          loads |-> 0]
    ELSE IF dry_run
    THEN Runner_run("_DryRunStore", fs, collected.value, config)
    ELSE run(fs, collected.value, config)

truthy(error) == error # Unset /\ error[1] # ""

exit_code(results) ==
    IF \E i \in DOMAIN results : truthy(results[i].error) THEN 3
    ELSE IF \E i \in DOMAIN results : has_failures(results[i]) THEN 2
    ELSE IF \E i \in DOMAIN results : has_warnings(results[i]) THEN 1
    ELSE 0

RECURSIVE run_tables(_, _, _, _, _, _)
run_results_append(result, table_configs, collect, dry_run, run_results, calls) ==
    IF result.ret.kind = "raise"
    THEN [files |-> result.files, ret |-> result.ret,
          calls |-> Append(calls, result.calls)]
    ELSE run_tables(result.files, Tail(table_configs), Tail(collect), dry_run,
                    Append(run_results, result.ret.value),
                    Append(calls, result.calls))

run_tables(fs, table_configs, collect, dry_run, run_results, calls) ==
    IF table_configs = <<>>
    THEN [files |-> fs, ret |-> Return(run_results), calls |-> calls]
    ELSE run_results_append(_run_table(fs, Head(table_configs), Head(collect), dry_run),
                            table_configs, collect, dry_run, run_results, calls)

RunSummary(ran) ==
    IF ran.ret.kind = "raise" THEN ran
    ELSE [files |-> ran.files,
          ret   |-> Return([results   |-> ran.ret.value,
                            exit_code |-> exit_code(ran.ret.value)]),
          calls |-> ran.calls]

_cmd_run(fs, table_configs, collect, dry_run) ==
    RunSummary(run_tables(fs, table_configs, collect, dry_run, <<>>, <<>>))

(***************************************************************************)
(* Operations of the store.                                                *)
(***************************************************************************)
Init ==
    /\ files = [p \in Paths |-> NoFile]
    /\ op = [name |-> "init"]
    /\ ret = Return(None)

Save ==
    \E stats \in StoreStats :
        LET r == save(files, stats) IN
        /\ StoredRunCount(r.files, stats.table_name) <= MaxRunCount
        /\ files' = r.files
        /\ ret' = r.ret
        /\ op' = [name |-> "save", table_name |-> stats.table_name, stats |-> stats]

Load ==
    \E t \in TableNames :
        /\ ret' = load(files, t)
        /\ op' = [name |-> "load", table_name |-> t]
        /\ UNCHANGED files

Exists ==
    \E t \in TableNames :
        /\ ret' = Return(exists(files, t))
        /\ op' = [name |-> "exists", table_name |-> t]
        /\ UNCHANGED files

Delete ==
    \E t \in TableNames :
        LET r == delete(files, t) IN
        /\ files' = r.files
        /\ ret' = r.ret
        /\ op' = [name |-> "delete", table_name |-> t]

ListTables ==
    /\ ret' = Return(list_tables(files))
    /\ op' = [name |-> "list_tables"]
    /\ UNCHANGED files

(***************************************************************************)
(* The environment damages a stored record, or leaves one that another     *)
(* release of the program wrote.                                           *)
(***************************************************************************)
Corrupt ==
    \E t \in TableNames :
        \E text \in {NotJsonText, JsonArrayText, TruncatedObjectText(t)} :
            /\ files[_path(t)].exists
            /\ files' = [files EXCEPT ![_path(t)] = File(text)]
            /\ op' = [name |-> "corrupt", table_name |-> t]
            /\ ret' = Return(None)

OtherVersion ==
    \E t \in TableNames :
        /\ files' = [files EXCEPT ![_path(t)] = File(OtherVersionText(t))]
        /\ op' = [name |-> "other_version", table_name |-> t]
        /\ ret' = Return(None)

Next ==
    \/ Save
    \/ Load
    \/ Exists
    \/ Delete
    \/ ListTables
    \/ Corrupt
    \/ OtherVersion

Spec == Init /\ [][Next]_vars

(***************************************************************************)
(* The rule functions applied to inputs of their own: CheckSpec.  The      *)
(* functions are pure, so each behaviour applies one function once.        *)
(***************************************************************************)
MaxCount == 4

Counts == 0..MaxCount

Hundredths == {0, 20, 25, 40, 50, 100, 150}

CheckColumns ==
    { <<>>,
      <<ColumnStats("a", "int", 2, 0, 2)>>,
      <<ColumnStats("a", "int", 2, 0, 2), ColumnStats("b", "str", 2, 1, 1)>>,
      <<ColumnStats("c", "int", 2, 0, 2), ColumnStats("b", "str", 2, 1, 1),
        ColumnStats("a", "int", 2, 0, 2)>> }

CheckSchemas ==
    { <<>>, [a |-> "int"], [a |-> "str", d |-> "str"],
      [a |-> "int", b |-> "str", c |-> "int"] }

SchemaOf(columns) ==
    [n \in { columns[i].name : i \in DOMAIN columns } |->
        columns[CHOOSE i \in DOMAIN columns : columns[i].name = n].dtype]

VolumeBaselines ==
    {None} \cup { Baseline(<<"o">>, n, [a |-> "int"], "t1", 1) : n \in Counts }

DriftBaselines ==
    {None} \cup { Baseline(<<"o">>, 1, s, "t1", 1) : s \in CheckSchemas }

CheckVolumeChange ==
    /\ op.name = "init"
    /\ \E n \in Counts, c \in {<<>>, <<ColumnStats("a", "int", 2, 0, 2)>>},
          warn_pct \in Hundredths, fail_pct \in Hundredths, baseline \in VolumeBaselines :
           LET stats  == TableStats(<<"o">>, "staging", n, c, SchemaOf(c), "t2")
               config == VolumeChangeConfig(warn_pct, fail_pct)
           IN /\ op' = [name |-> "check_volume_change", stats |-> stats,
                        config |-> config, baseline |-> baseline]
              /\ ret' = check_volume_change(stats, config, baseline)
              /\ UNCHANGED files

CheckSchemaDrift ==
    /\ op.name = "init"
    /\ \E n \in Counts, c \in CheckColumns, baseline \in DriftBaselines :
           LET stats  == TableStats(<<"o">>, "staging", n, c, SchemaOf(c), "t2")
               config == SchemaDriftConfig(IF baseline = None THEN <<>>
                                           ELSE sorted(DOMAIN baseline.schema))
           IN /\ op' = [name |-> "check_schema_drift", stats |-> stats,
                        config |-> config, baseline |-> baseline]
              /\ ret' = check_schema_drift(stats, config, baseline)
              /\ UNCHANGED files

NullColumnLists ==
    { Unset, Set(<<>>), Set(<<"a">>), Set(<<"z", "a">>), Set(<<"a", "b">>) }

RequiredColumnLists ==
    { <<>>, <<"a">>, <<"z", "a">>, <<"a", "b">>, <<"b", "a">>, <<"a", "a">> }

UniqueColumnLists ==
    { <<"a">>, <<"b">>, <<"z">>, <<"a", "b">>, <<"b", "a">>, <<"a", "b", "c">> }

ExpectedItems == { <<c, t>> : c \in {"a", "d"}, t \in {"int", "INT", "str"} }

ExpectedSchemas ==
    { <<>> } \cup { <<x>> : x \in ExpectedItems }
             \cup { p \in { <<x, y>> : x \in ExpectedItems, y \in ExpectedItems } :
                       p[1][1] # p[2][1] }

OptionalCounts == { Unset } \cup { Set(n) : n \in Counts }

CheckNullRate ==
    /\ op.name = "init"
    /\ \E n \in Counts, k \in Counts, withB \in BOOLEAN, names \in NullColumnLists,
          warn_pct \in Hundredths, fail_pct \in Hundredths :
           LET c      == (IF withB THEN <<ColumnStats("b", "str", 2, 1, 1)>> ELSE <<>>)
                         \o <<ColumnStats("a", "int", n, k, n)>>
               stats  == TableStats(<<"o">>, "staging", n, c, SchemaOf(c), "t2")
               config == NullConfig(names, warn_pct, fail_pct)
           IN /\ k <= n
              /\ op' = [name |-> "check_null_rate", stats |-> stats, config |-> config]
              /\ ret' = check_null_rate(stats, config)
              /\ UNCHANGED files

CheckRequiredColumns ==
    /\ op.name = "init"
    /\ \E n \in Counts, k \in Counts, withB \in BOOLEAN, names \in RequiredColumnLists :
           LET c      == (IF withB THEN <<ColumnStats("b", "str", 2, 1, 1)>> ELSE <<>>)
                         \o <<ColumnStats("a", "int", n, k, n)>>
               stats  == TableStats(<<"o">>, "staging", n, c, SchemaOf(c), "t2")
               config == RequiredConfig(names)
           IN /\ k <= n
              /\ op' = [name |-> "check_required_columns", stats |-> stats,
                        config |-> config]
              /\ ret' = check_required_columns(stats, config)
              /\ UNCHANGED files

CheckSchema ==
    /\ op.name = "init"
    /\ \E dtype \in {"int", "Str", "STR"}, withB \in BOOLEAN, expected \in ExpectedSchemas :
           LET c      == <<ColumnStats("a", dtype, 2, 0, 2)>>
                         \o (IF withB THEN <<ColumnStats("b", "str", 2, 1, 1)>> ELSE <<>>)
               stats  == TableStats(<<"o">>, "staging", 2, c, SchemaOf(c), "t2")
               config == SchemaConfig(expected)
           IN /\ op' = [name |-> "check_schema", stats |-> stats, config |-> config]
              /\ ret' = check_schema(stats, config)
              /\ UNCHANGED files

CheckUnique ==
    /\ op.name = "init"
    /\ \E n \in Counts, d \in Counts, withB \in BOOLEAN,
          name \in {"a", "a|b", "b|a", "a|b|c"}, names \in UniqueColumnLists :
           LET c      == (IF withB THEN <<ColumnStats("b", "str", 2, 1, 1)>> ELSE <<>>)
                         \o <<ColumnStats(name, "int", n, 0, d)>>
               stats  == TableStats(<<"o">>, "staging", n, c, SchemaOf(c), "t2")
               config == UniqueConfig(names)
           IN /\ d <= n
              /\ op' = [name |-> "check_unique", stats |-> stats, config |-> config]
              /\ ret' = check_unique(stats, config)
              /\ UNCHANGED files

CheckRowCount ==
    /\ op.name = "init"
    /\ \E n \in Counts, min_rows \in OptionalCounts, max_rows \in OptionalCounts :
           LET c      == <<ColumnStats("a", "int", n, 0, n)>>
               stats  == TableStats(<<"o">>, "staging", n, c, SchemaOf(c), "t2")
               config == RowCountConfig(min_rows, max_rows)
           IN /\ op' = [name |-> "check_row_count", stats |-> stats, config |-> config]
              /\ ret' = check_row_count(stats, config)
              /\ UNCHANGED files

MaxResults == 3

StatusLists ==
    UNION { [1..n -> {"PASS", "WARN", "FAIL"}] : n \in 0..MaxResults }

OverallStatus ==
    /\ op.name = "init"
    /\ \E statuses \in StatusLists, baseline_updated \in BOOLEAN :
           LET results == [i \in DOMAIN statuses |->
                              CheckResult("row_count", <<"o">>, "staging", statuses[i],
                                          <<"Row count ", comma(i), ".">>,
                                          Unset, Unset, Unset, Unset)]
               result  == RunResult(<<"o">>, "staging", results, baseline_updated, Unset)
           IN /\ op' = [name |-> "overall_status", result |-> result]
              /\ ret' = Return([overall_status |-> overall_status(result),
                                has_failures   |-> has_failures(result),
                                has_warnings   |-> has_warnings(result)])
              /\ UNCHANGED files

CollectErrors ==
    { Exception("ConnectionError", "connection refused"), Exception("KeyError", "") }

SummaryResults ==
    { RunResult(<<"o">>, "staging",
                [i \in DOMAIN statuses |->
                    CheckResult("row_count", <<"o">>, "staging", statuses[i],
                                <<"Row count ", comma(i), ".">>,
                                Unset, Unset, Unset, Unset)],
                TRUE, Unset) : statuses \in StatusLists }
    \cup
    { _run_table([p \in Paths |-> NoFile],
                 TableConfig(<<"o">>, "staging", "main_db", Unset, Unset, Unset, Unset, Unset, Unset, Unset, TRUE, TRUE, TRUE),
                 Raise(exc), FALSE).ret.value : exc \in CollectErrors }

ExitCode ==
    /\ op.name = "init"
    /\ \E results \in { <<r>> : r \in SummaryResults }
                       \cup { <<r, q>> : r \in SummaryResults, q \in SummaryResults } :
           /\ op' = [name |-> "exit_code", results |-> results]
           /\ ret' = Return(exit_code(results))
           /\ UNCHANGED files

CheckNext ==
    \/ CheckVolumeChange
    \/ CheckSchemaDrift
    \/ CheckNullRate
    \/ CheckRequiredColumns
    \/ CheckSchema
    \/ CheckUnique
    \/ CheckRowCount
    \/ OverallStatus
    \/ ExitCode

CheckSpec == Init /\ [][CheckNext]_vars

(***************************************************************************)
(* Runs of the configured tables against one store: RunSpec.               *)
(***************************************************************************)
RunColumns ==
    { <<ColumnStats("a", "int", 2, 0, 2)>>,
      <<ColumnStats("a", "STR", 2, 1, 1)>>,
      <<ColumnStats("a", "int", 2, 0, 2), ColumnStats("b", "str", 2, 1, 1)>> }

RunStats ==
    { TableStats(t, "staging", n, c, SchemaOf(c), "t1") :
        t \in TableNames \ {<<"o">>}, n \in RowCounts, c \in RunColumns }
    \cup
    { TableStats(<<"o">>, "staging", n, c, SchemaOf(c), "t1") :
        n \in RowCounts, c \in {<<ColumnStats("a", "int", 2, 0, 2)>>} }

RunConfigs(t) ==
    { TableConfig(t, "staging", "main_db", Set(DefaultNullConfig), Unset, Unset,
                  Unset, Set(DefaultVolumeChangeConfig), Unset, Unset,
                  TRUE, TRUE, TRUE),
      TableConfig(t, "staging", "main_db", Unset, Set(RequiredConfig(<<"b">>)),
                  Set(UniqueConfig(<<"a">>)), Set(RowCountConfig(Set(1), Unset)),
                  Unset, Set(SchemaConfig(<<<<"a", "int">>>>)), Unset,
                  FALSE, FALSE, FALSE),
      TableConfig(t, "staging", "main_db", Unset, Set(RequiredConfig(<<"b">>)),
                  Set(UniqueConfig(<<"a">>)), Set(RowCountConfig(Set(1), Unset)),
                  Unset, Set(SchemaConfig(<<<<"a", "int">>>>)), Unset,
                  TRUE, TRUE, TRUE) }

Run ==
    \E stats \in RunStats :
        \E config \in RunConfigs(stats.table_name) :
            \E r \in { run(files, stats, config) } :
                /\ StoredRunCount(r.files, stats.table_name) <= MaxRunCount
                /\ files' = r.files
                /\ ret' = r.ret
                /\ op' = [name |-> "run", table_name |-> stats.table_name,
                          stats |-> stats, config |-> config, calls |-> r.calls,
                          loads |-> r.loads,
                          repeats_alerting_run |->
                              /\ op.name = "run"
                              /\ op.stats = stats
                              /\ \E i \in DOMAIN ret.value.results :
                                     /\ ret.value.results[i].check
                                          \in {"schema_drift", "volume_change"}
                                     /\ ret.value.results[i].status # "PASS"]

RunNext ==
    \/ Run
    \/ Delete

RunSpec == Init /\ [][RunNext]_vars

(***************************************************************************)
(* Batches of the command line over two configured tables: BatchSpec.      *)
(***************************************************************************)
BatchTableConfigs ==
    LET o  == TableConfig(<<"o">>, "staging", "main_db", Unset, Unset, Unset, Unset, Unset, Unset, Unset, TRUE, TRUE, TRUE)
        so == TableConfig(<<"s", ".", "o">>, "staging", "main_db", Unset, Set(RequiredConfig(<<"b">>)), Set(UniqueConfig(<<"a">>)), Set(RowCountConfig(Set(1), Unset)), Unset, Set(SchemaConfig(<<<<"a", "int">>>>)), Unset, TRUE, TRUE, TRUE)
    IN { <<o, so>>, <<so, o>> }

Collected(table_config) ==
    IF table_config.table = <<"o">>
    THEN { Raise(Exception("KeyError", "")) }
         \cup { Return(TableStats(<<"o">>, "staging", n, c, SchemaOf(c), "t1")) :
                    n \in RowCounts, c \in {<<ColumnStats("a", "int", 2, 0, 2)>>} }
    ELSE { Raise(exc) : exc \in CollectErrors }
         \cup { Return(TableStats(table_config.table, "staging", 1, c, SchemaOf(c), "t1")) :
                    c \in { <<ColumnStats("a", "int", 2, 0, 2)>>,
                            <<ColumnStats("a", "int", 2, 0, 2),
                              ColumnStats("b", "str", 2, 1, 1)>> } }

CmdRun ==
    \E table_configs \in BatchTableConfigs, dry_run \in BOOLEAN :
        \E first \in Collected(table_configs[1]), second \in Collected(table_configs[2]) :
            \E r \in { _cmd_run(files, table_configs, <<first, second>>, dry_run) } :
                /\ \A i \in DOMAIN table_configs :
                       StoredRunCount(r.files, table_configs[i].table) <= MaxRunCount
                /\ files' = r.files
                /\ ret' = r.ret
                /\ op' = [name |-> "cmd_run", table_configs |-> table_configs,
                          collect |-> <<first, second>>, dry_run |-> dry_run,
                          calls |-> r.calls]

BatchNext == CmdRun

BatchSpec == Init /\ [][BatchNext]_vars

(***************************************************************************)
(* Properties of the baseline store.                                       *)
(***************************************************************************)

C2_RunCountCountsWrites ==
    [][op'.name = "save" =>
        LET t == op'.table_name IN
        IF ret' = Return(TRUE)
        THEN StoredRunCount(files', t) = StoredRunCount(files, t) + 1
        ELSE StoredRunCount(files', t) = StoredRunCount(files, t)
    ]_vars

\* C2 witness: a second write to a table has left run_count = 2.
C2_Witness ==
    /\ op.name = "save"
    /\ ret = Return(TRUE)
    /\ StoredRunCount(files, op.table_name) = 2

\* C3 (as stated): load never raises; on a missing record and on every kind
\* of corrupted record it returns None.
C3_LoadNeverRaises ==
    op.name = "load" =>
        /\ ret.kind = "return"
        /\ LET f == files[_path(op.table_name)] IN
           (~f.exists \/ f.text \in {NotJsonText, JsonArrayText,
                                     TruncatedObjectText(op.table_name)})
               => ret = Return(None)

\* C4 (as stated): a save that follows the corruption of the table's record
\* returns true and leaves run_count = 1.
C4_SaveAfterCorruption ==
    [][(op.name = "corrupt" /\ op'.name = "save"
            /\ _path(op'.table_name) = _path(op.table_name)) =>
        /\ ret' = Return(TRUE)
        /\ StoredRunCount(files', op'.table_name) = 1
    ]_vars

\* C5 (as stated): load returns None for a record whose gaya_version differs
\* from the current version.
C5_OtherVersionIsAbsent ==
    (op.name = "load" /\ files[_path(op.table_name)] = File(OtherVersionText(op.table_name)))
        => ret = Return(None)

\* C6: a save for a table name whose file does not exist makes exists true
\* and makes load return a Baseline with that very table name, and with the
\* row_count and the schema of the statistics.
C6_NameRoundTrips ==
    [][(op'.name = "save" /\ ~exists(files, op'.table_name)) =>
        LET t == op'.table_name
            l == load(files', t)
        IN /\ exists(files', t)
           /\ l.kind = "return"
           /\ l.value # None
           /\ l.value.table_name = t
           /\ l.value.row_count = op'.stats.row_count
           /\ l.value.schema = op'.stats.schema
    ]_vars

\* C6 witness: the first save of a name that contains '/' has been made and
\* the name is loaded back.
C6_Witness ==
    /\ op.name = "save"
    /\ op.table_name = <<"s", "/", "o">>
    /\ ret = Return(TRUE)
    /\ StoredRunCount(files, op.table_name) = 1
    /\ load(files, op.table_name).value.table_name = <<"s", "/", "o">>

\* C7 (as stated): a name that has just been saved is in list_tables()
\* exactly when exists() is true for it.
C7_ListTablesMatchesExists ==
    (op.name = "save" /\ ret = Return(TRUE)) =>
        (op.table_name \in list_tables(files) <=> exists(files, op.table_name))

(***************************************************************************)
(* Properties of the rule functions.                                       *)
(***************************************************************************)

\* C9: with no baseline, check_volume_change and check_schema_drift each
\* return exactly one result, and its status is PASS, whatever the row
\* count, the columns and the thresholds.
C9_FirstRunPasses ==
    (op.name \in {"check_volume_change", "check_schema_drift"} /\ op.baseline = None) =>
        /\ ret.kind = "return"
        /\ Len(ret.value) = 1
        /\ ret.value[1].status = "PASS"

\* C9 witness: schema drift was evaluated without a baseline on a table
\* that has columns.
C9_Witness ==
    /\ op.name = "check_schema_drift"
    /\ op.baseline = None
    /\ Len(op.stats.columns) = 3
    /\ ret.value[1].status = "PASS"

\* C10: with a baseline, check_volume_change returns one result: FAIL when
\* |current - previous| / max(previous, 1) >= fail_pct, else WARN when it is
\* >= warn_pct, else PASS; it never raises (previous = 0 included); the
\* direction reported by a WARN or FAIL is "increased" when current >
\* previous and "dropped" otherwise.
C10_VolumeClassification ==
    (op.name = "check_volume_change" /\ op.baseline # None) =>
        LET current  == op.stats.row_count
            previous == op.baseline.row_count
            dist     == IF current >= previous THEN current - previous
                                               ELSE previous - current
            base     == IF previous >= 1 THEN previous ELSE 1
            status   == IF dist * 100 >= op.config.fail_pct * base THEN "FAIL"
                        ELSE IF dist * 100 >= op.config.warn_pct * base THEN "WARN"
                        ELSE "PASS"
        IN /\ ret.kind = "return"
           /\ Len(ret.value) = 1
           /\ ret.value[1].status = status
           /\ status # "PASS" =>
                ret.value[1].message[2] =
                    (IF current > previous THEN "increased" ELSE "dropped")

\* C10 witness: a baseline of 0 rows and a non-empty table gave FAIL with
\* the direction "increased", a threshold above 100% being exceeded.
C10_Witness ==
    /\ op.name = "check_volume_change"
    /\ op.baseline # None
    /\ op.baseline.row_count = 0
    /\ op.stats.row_count = 2
    /\ op.config.fail_pct = 150
    /\ ret.value[1].status = "FAIL"
    /\ ret.value[1].message[2] = "increased"

(***************************************************************************)
(* Properties of runs.                                                     *)
(***************************************************************************)

\* C8 (as stated): a run or a delete for a table leaves unchanged what load
\* and exists return for every table of a different name.
C8_DistinctTablesIsolated ==
    [][op'.name \in {"run", "delete"} =>
        \A other \in TableNames :
            other # op'.table_name =>
                /\ load(files', other) = load(files, other)
                /\ exists(files', other) = exists(files, other)
    ]_vars


(***************************************************************************)
(* Properties of the completeness, uniqueness, row-count and schema rules. *)
(***************************************************************************)

\* C11: with fail_pct > warn_pct >= 0, check_null_rate gives every resolved
\* column PASS when its null fraction is 0 (a column of no rows included)
\* whatever the thresholds, and otherwise PASS below warn_pct, WARN from
\* warn_pct up to but excluding fail_pct, FAIL from fail_pct on.
C11_NullRateClassification ==
    (op.name = "check_null_rate" /\ op.config.fail_pct > op.config.warn_pct) =>
        LET names      == op.config.columns
            configured == names # Unset /\ names[1] # <<>>
            cols       == op.stats.columns
            count      == IF configured THEN Len(names[1]) ELSE Len(cols)
            Resolved(i) ==
                configured => \E j \in DOMAIN cols : cols[j].name = names[1][i]
            Col(i) ==
                IF configured
                THEN cols[CHOOSE j \in DOMAIN cols : cols[j].name = names[1][i]]
                ELSE cols[i]
            Expected(col) ==
                IF col.row_count = 0 \/ col.null_count = 0 THEN "PASS"
                ELSE IF col.null_count * 100 < op.config.warn_pct * col.row_count
                THEN "PASS"
                ELSE IF col.null_count * 100 < op.config.fail_pct * col.row_count
                THEN "WARN"
                ELSE "FAIL"
        IN /\ ret.kind = "return"
           /\ Len(ret.value) = count
           /\ \A i \in 1..count :
                  Resolved(i) => /\ ret.value[i].status = Expected(Col(i))
                                 /\ ret.value[i].column = Set(Col(i).name)

\* C11 witness: under a warn_pct of 0 a column without nulls is reported
\* PASS while a column with nulls below fail_pct is reported WARN.
C11_Witness ==
    /\ op.name = "check_null_rate"
    /\ op.config.warn_pct = 0
    /\ op.config.fail_pct > 0
    /\ \E i, k \in DOMAIN ret.value :
           /\ ret.value[i].status = "PASS"
           /\ ret.value[k].status = "WARN"
           /\ \E j \in DOMAIN op.stats.columns :
                  /\ Set(op.stats.columns[j].name) = ret.value[i].column
                  /\ op.stats.columns[j].row_count > 0
                  /\ op.stats.columns[j].null_count = 0

\* C12: when check_null_rate is given configured column names it returns
\* one result per name in the configured order; a name that does not
\* resolve against the statistics gives a FAIL whose column field is that
\* name as configured and whose message says the column does not exist;
\* the resolved names are still evaluated under their own names.
C12_UnresolvedColumnEchoed ==
    (/\ op.name = "check_null_rate"
     /\ op.config.columns # Unset
     /\ op.config.columns[1] # <<>>) =>
        LET names == op.config.columns[1]
            cols  == op.stats.columns
        IN /\ ret.kind = "return"
           /\ Len(ret.value) = Len(names)
           /\ \A i \in DOMAIN names :
                 /\ ret.value[i].column = Set(names[i])
                 /\ (\A j \in DOMAIN cols : cols[j].name # names[i]) =>
                       /\ ret.value[i].status = "FAIL"
                       /\ ret.value[i].message
                            = <<"Column specified in null check does not exist in table.">>

\* C13: check_required_columns never raises and returns one result per
\* configured name, in the configured order, each decided by its own column
\* alone: FAIL (missing entirely) when the table has no such column, FAIL
\* with expected 0 and actual null_count when the column has nulls, PASS
\* when it has none.
C13_RequiredColumns ==
    op.name = "check_required_columns" =>
        LET names == op.config.columns
            cols  == op.stats.columns
            Present(n) == \E j \in DOMAIN cols : cols[j].name = n
            Col(n) == cols[CHOOSE j \in DOMAIN cols : cols[j].name = n]
        IN /\ ret.kind = "return"
           /\ Len(ret.value) = Len(names)
           /\ \A i \in DOMAIN names :
                 LET r == ret.value[i] IN
                 /\ r.check = "required_columns"
                 /\ r.column = Set(names[i])
                 /\ IF ~Present(names[i])
                    THEN /\ r.status = "FAIL"
                         /\ r.message[3] = "' is missing from the table entirely."
                    ELSE IF Col(names[i]).null_count > 0
                    THEN /\ r.status = "FAIL"
                         /\ r.expected = Set(0)
                         /\ r.actual = Set(Col(names[i]).null_count)
                    ELSE r.status = "PASS"

\* C13 witness: one call reports a missing column as FAIL and, after it, a
\* complete column as PASS.
C13_Witness ==
    /\ op.name = "check_required_columns"
    /\ Len(ret.value) = 2
    /\ ret.value[1].status = "FAIL"
    /\ ret.value[1].column = Set("z")
    /\ ret.value[2].status = "PASS"
    /\ ret.value[2].column = Set("a")

\* C14: check_schema returns one result per expected (column, type) pair,
\* in the order of the pairs, each judged by its own pair alone: FAIL when
\* the column is not in the actual schema, FAIL when its actual type
\* differs from the expected one by more than letter case, PASS when the
\* two types are equal up to letter case.
C14_SchemaPairs ==
    op.name = "check_schema" =>
        LET expected == op.config.expected
            schema   == op.stats.schema
            CaseClasses == { {"int", "INT"}, {"str", "Str", "STR"} }
            SameUpToCase(x, y) == \E c \in CaseClasses : x \in c /\ y \in c
        IN /\ ret.kind = "return"
           /\ Len(ret.value) = Len(expected)
           /\ \A i \in DOMAIN expected :
                 LET r == ret.value[i] IN
                 /\ r.check = "schema"
                 /\ r.column = Set(expected[i][1])
                 /\ r.status =
                      IF expected[i][1] \notin DOMAIN schema THEN "FAIL"
                      ELSE IF SameUpToCase(schema[expected[i][1]], expected[i][2])
                      THEN "PASS"
                      ELSE "FAIL"

\* C14 witness: one call passes a pair whose types differ only in letter
\* case and fails a pair whose column is missing.
C14_Witness ==
    /\ op.name = "check_schema"
    /\ \E i, k \in DOMAIN ret.value :
          /\ ret.value[i].status = "PASS"
          /\ ret.value[i].expected # ret.value[i].actual
          /\ ret.value[k].status = "FAIL"
          /\ ret.value[k].actual = Unset

\* C15: for a UniqueConfig of one column, check_unique returns exactly one
\* result and never a WARN: when the column resolves, with duplicates =
\* row_count - distinct_count of that column, FAIL reporting that number
\* when duplicates > 0 and PASS when duplicates = 0; when the column does
\* not resolve, FAIL.
C15_SingleColumnUnique ==
    (op.name = "check_unique" /\ Len(op.config.columns) = 1) =>
        LET name == op.config.columns[1]
            cols == op.stats.columns
            Present == \E j \in DOMAIN cols : cols[j].name = name
            col  == cols[CHOOSE j \in DOMAIN cols : cols[j].name = name]
            duplicates == col.row_count - col.distinct_count
        IN /\ ret.kind = "return"
           /\ Len(ret.value) = 1
           /\ ret.value[1].status \in {"PASS", "FAIL"}
           /\ ret.value[1].column = Set(name)
           /\ IF ~Present
              THEN /\ ret.value[1].status = "FAIL"
                   /\ ret.value[1].actual = Unset
              ELSE IF duplicates > 0
              THEN /\ ret.value[1].status = "FAIL"
                   /\ ret.value[1].message[4] = comma(duplicates)
                   /\ ret.value[1].actual = Set(<<comma(duplicates), " duplicates">>)
              ELSE ret.value[1].status = "PASS"

\* C15 witness: a resolved single column whose rows are fewer in the column
\* statistics than in the table is reported FAIL with its own duplicate
\* count.
C15_Witness ==
    /\ op.name = "check_unique"
    /\ op.config.columns = <<"b">>
    /\ op.stats.row_count > 2
    /\ ret.value[1].status = "FAIL"
    /\ ret.value[1].actual = Set(<<comma(1), " duplicates">>)

\* C16: for a UniqueConfig of two or more columns, check_unique returns one
\* result about the synthetic column named by the configured names joined
\* with "|" in the configured order: FAIL (columns missing) when the
\* statistics have no column of that name, even if every component column
\* or the join in another order is present; otherwise FAIL when row_count -
\* distinct_count of the synthetic column is positive and PASS when it is 0.
C16_CompositeUnique ==
    (op.name = "check_unique" /\ Len(op.config.columns) >= 2) =>
        LET names == op.config.columns
            cols  == op.stats.columns
            synthetic ==
                IF Len(names) = 2 THEN names[1] \o "|" \o names[2]
                ELSE names[1] \o "|" \o names[2] \o "|" \o names[3]
            Present == \E j \in DOMAIN cols : cols[j].name = synthetic
            col  == cols[CHOOSE j \in DOMAIN cols : cols[j].name = synthetic]
            duplicates == col.row_count - col.distinct_count
        IN /\ ret.kind = "return"
           /\ Len(ret.value) = 1
           /\ ret.value[1].column = Set(synthetic)
           /\ IF ~Present
              THEN /\ ret.value[1].status = "FAIL"
                   /\ ret.value[1].message[3]
                        = " - one or more are missing from the table."
              ELSE IF duplicates > 0
              THEN /\ ret.value[1].status = "FAIL"
                   /\ ret.value[1].actual
                        = Set(<<comma(duplicates), " duplicate combinations">>)
              ELSE ret.value[1].status = "PASS"

\* C16 witness: the key ("a", "b") is reported missing although the
\* statistics hold the columns "b" and "b|a".
C16_Witness ==
    /\ op.name = "check_unique"
    /\ op.config.columns = <<"a", "b">>
    /\ { op.stats.columns[j].name : j \in DOMAIN op.stats.columns } = {"b", "b|a"}
    /\ ret.value[1].status = "FAIL"
    /\ ret.value[1].column = Set("a|b")
    /\ ret.value[1].actual = Unset

\* C17: check_row_count returns exactly one result: FAIL "below minimum"
\* when a minimum is configured and row_count is less than it; otherwise
\* FAIL "exceeds maximum" when a maximum is configured and row_count is
\* greater than it; otherwise PASS.  So the minimum is tested first, a
\* row_count equal to a bound passes, and without bounds every row_count
\* passes.
C17_RowCountBounds ==
    op.name = "check_row_count" =>
        LET count == op.stats.row_count
            min_rows == op.config.min_rows
            max_rows == op.config.max_rows
        IN /\ ret.kind = "return"
           /\ Len(ret.value) = 1
           /\ IF min_rows # Unset /\ count < min_rows[1]
              THEN /\ ret.value[1].status = "FAIL"
                   /\ ret.value[1].message[3] = " is below minimum "
              ELSE IF max_rows # Unset /\ count > max_rows[1]
              THEN /\ ret.value[1].status = "FAIL"
                   /\ ret.value[1].message[3] = " exceeds maximum "
              ELSE ret.value[1].status = "PASS"

\* C17 witness: with a minimum above the maximum, a row_count between the
\* two is reported as below the minimum.
C17_Witness ==
    /\ op.name = "check_row_count"
    /\ op.config.min_rows # Unset
    /\ op.config.max_rows # Unset
    /\ op.stats.row_count < op.config.min_rows[1]
    /\ op.stats.row_count > op.config.max_rows[1]
    /\ ret.value[1].status = "FAIL"
    /\ ret.value[1].message[3] = " is below minimum "

\* C18: with a baseline, check_schema_drift compares the set of current
\* column names with the key set of the baseline schema: equal sets give a
\* single PASS; columns removed give one FAIL that lists every removed name
\* in sorted order; columns added give one WARN that lists every added name
\* in sorted order; when both happen there are exactly two results, the
\* FAIL first.
C18_DriftAgainstBaseline ==
    (op.name = "check_schema_drift" /\ op.baseline # None) =>
        LET current == { op.stats.columns[i].name : i \in DOMAIN op.stats.columns }
            base    == DOMAIN op.baseline.schema
            removed == base \ current
            added   == current \ base
            Pos(n)  == CHOOSE i \in DOMAIN NameOrder : NameOrder[i] = n
            SortedListOf(s, S) ==
                /\ Len(s) = Cardinality(S)
                /\ { s[i] : i \in DOMAIN s } = S
                /\ \A i, j \in DOMAIN s : i < j => Pos(s[i]) < Pos(s[j])
            statuses == [i \in DOMAIN ret.value |-> ret.value[i].status]
        IN /\ ret.kind = "return"
           /\ statuses = (IF removed = {} /\ added = {} THEN <<"PASS">> ELSE <<>>)
                         \o (IF removed # {} THEN <<"FAIL">> ELSE <<>>)
                         \o (IF added # {} THEN <<"WARN">> ELSE <<>>)
           /\ \A i \in DOMAIN ret.value :
                 /\ ret.value[i].status = "FAIL"
                      => SortedListOf(ret.value[i].message[3], removed)
                 /\ ret.value[i].status = "WARN"
                      => SortedListOf(ret.value[i].message[3], added)

\* C18 witness: current columns {a, b, c} against baseline columns {a, d}
\* give a FAIL listing d followed by a WARN listing b, c.
C18_Witness ==
    /\ op.name = "check_schema_drift"
    /\ op.baseline # None
    /\ Len(ret.value) = 2
    /\ ret.value[1].status = "FAIL"
    /\ ret.value[1].message[3] = <<"d">>
    /\ ret.value[2].status = "WARN"
    /\ ret.value[2].message[3] = <<"b", "c">>

(***************************************************************************)
(* Properties of the runner.                                               *)
(***************************************************************************)

\* C19: a run calls save exactly once, as its last call and so after every
\* enabled check, whatever the statuses of the results; the store after the
\* run is the store that this one save of the run's statistics leaves, and
\* baseline_updated is the value the save returned.
C19_OneSavePerRun ==
    [][op'.name = "run" =>
        LET calls == op'.calls
            saved == save(files, op'.stats)
        IN /\ ret'.kind = "return"
           /\ Cardinality({ i \in DOMAIN calls : calls[i] = "save" }) = 1
           /\ calls[Len(calls)] = "save"
           /\ files' = saved.files
           /\ ret'.value.baseline_updated = saved.ret.value
           /\ ret'.value.baseline_updated <=> (files' # files)
    ]_vars

\* C19 witness: a run whose results hold a FAIL and a WARN wrote the
\* changed statistics over an existing record.
C19_Witness ==
    /\ op.name = "run"
    /\ ret.value.baseline_updated
    /\ StoredRunCount(files, op.table_name) = 2
    /\ \E i, k \in DOMAIN ret.value.results :
          /\ ret.value.results[i].status = "FAIL"
          /\ ret.value.results[k].status = "WARN"

\* C20: the results of a run are the outputs of the enabled stages,
\* concatenated in the order schema, schema drift, null rate, required
\* columns, uniqueness, row count, volume change, each stage evaluated
\* against the statistics and the baseline loaded at the start of the run;
\* a stage that is not configured or is switched off contributes nothing,
\* and every enabled stage contributes all of its results whatever the
\* statuses before it.
C20_ResultsInStageOrder ==
    [][op'.name = "run" =>
        LET stats    == op'.stats
            config   == op'.config
            baseline == load(files, stats.table_name).value
            drift    == SchemaDriftConfig(IF baseline # None
                                          THEN sorted(DOMAIN baseline.schema)
                                          ELSE <<>>)
            nulls    == IF config.null # Unset THEN config.null[1]
                        ELSE NullConfig(Unset, 10, 25)
            volume   == IF config.volume # Unset THEN config.volume[1]
                        ELSE VolumeChangeConfig(20, 40)
        IN /\ ret'.kind = "return"
           /\ ret'.value.results =
                (IF config.schema # Unset
                 THEN check_schema(stats, config.schema[1]).value ELSE <<>>)
                \o (IF config.run_drift_check
                    THEN check_schema_drift(stats, drift, baseline).value ELSE <<>>)
                \o (IF config.run_null_check
                    THEN check_null_rate(stats, nulls).value ELSE <<>>)
                \o (IF config.required # Unset
                    THEN check_required_columns(stats, config.required[1]).value
                    ELSE <<>>)
                \o (IF config.unique # Unset
                    THEN check_unique(stats, config.unique[1]).value ELSE <<>>)
                \o (IF config.row_count # Unset
                    THEN check_row_count(stats, config.row_count[1]).value ELSE <<>>)
                \o (IF config.run_volume_check
                    THEN check_volume_change(stats, volume, baseline).value
                    ELSE <<>>)
    ]_vars

\* C20 witness: a run with all seven stages enabled whose required-columns
\* stage reported a FAIL still carries the later uniqueness, row-count and
\* volume-change results, in that order, at the end of its results.
C20_Witness ==
    /\ op.name = "run"
    /\ Len(op.calls) = 9
    /\ LET results == ret.value.results
           n       == Len(results)
       IN /\ n >= 7
          /\ \E i \in 1..(n - 3) : /\ results[i].check = "required_columns"
                                   /\ results[i].status = "FAIL"
          /\ results[n - 2].check = "unique"
          /\ results[n - 1].check = "row_count"
          /\ results[n].check = "volume_change"

(***************************************************************************)
(* Properties of the run result, the batch and the command line.           *)
(***************************************************************************)

\* C21: the overall_status of a RunResult is FAIL when its results hold a
\* FAIL, otherwise WARN when they hold a WARN, otherwise PASS (an empty
\* result list included); has_failures is true exactly when a FAIL result
\* is present and has_warnings exactly when a WARN result is present.
C21_OverallStatus ==
    op.name = "overall_status" =>
        LET results == op.result.results
            Holds(status) == \E i \in DOMAIN results : results[i].status = status
        IN /\ ret.value.overall_status =
                 (IF Holds("FAIL") THEN "FAIL" ELSE IF Holds("WARN") THEN "WARN" ELSE "PASS")
           /\ ret.value.has_failures <=> Holds("FAIL")
           /\ ret.value.has_warnings <=> Holds("WARN")

\* C21 witness: a result list holding a WARN before a FAIL has overall
\* status FAIL and both predicates true.
C21_Witness ==
    /\ op.name = "overall_status"
    /\ \E i, j \in DOMAIN op.result.results :
          /\ i < j
          /\ op.result.results[i].status = "WARN"
          /\ op.result.results[j].status = "FAIL"
    /\ ret.value.overall_status = "FAIL"
    /\ ret.value.has_failures
    /\ ret.value.has_warnings

\* C22: the exit code of a batch of RunResults is 3 when any table carries
\* an infrastructure error, whatever its message text and whatever the
\* other tables report; otherwise 2 when any table has a FAIL; otherwise 1
\* when any table has a WARN; otherwise 0.
C22_ExitCode ==
    op.name = "exit_code" =>
        LET results == op.results
            Status(status) ==
                \E i \in DOMAIN results :
                    \E k \in DOMAIN results[i].results :
                        results[i].results[k].status = status
        IN ret.value =
             (IF \E i \in DOMAIN results : results[i].error # Unset THEN 3
              ELSE IF Status("FAIL") THEN 2
              ELSE IF Status("WARN") THEN 1
              ELSE 0)

\* C23: when the collection of one table's statistics fails the batch
\* still returns one RunResult per configured table, in configuration
\* order: the failed table's result has error set, no check results and
\* baseline_updated false, no load or save is made for it and its stored
\* record stays as it was; every table whose collection succeeded is run
\* (its baseline loaded, its checks evaluated, its statistics saved unless
\* the batch is a dry run) and reports no error.
C23_CollectFailureIsolated ==
    [][op'.name = "cmd_run" =>
        LET configs == op'.table_configs
            collect == op'.collect
        IN /\ ret'.kind = "return"
           /\ Len(ret'.value.results) = Len(configs)
           /\ \A i \in DOMAIN configs :
                 LET result == ret'.value.results[i]
                     path   == _path(configs[i].table)
                 IN /\ result.table = configs[i].table
                    /\ IF collect[i].kind = "raise"
                       THEN /\ result.error # Unset
                            /\ result.results = <<>>
                            /\ ~result.baseline_updated
                            /\ op'.calls[i] = <<>>
                            /\ files'[path] = files[path]
                       ELSE /\ result.error = Unset
                            /\ result.results # <<>>
                            /\ Head(op'.calls[i]) = "load"
                            /\ op'.calls[i][Len(op'.calls[i])] = "save"
                            /\ op'.dry_run => files'[path] = files[path]
                            /\ ~op'.dry_run =>
                                 files'[path] = save(files, collect[i].value).files[path]
    ]_vars

\* C23 witness: the first table of a batch failed in collection and the
\* second table was run after it and wrote its baseline.
C23_Witness ==
    /\ op.name = "cmd_run"
    /\ op.collect[1].kind = "raise"
    /\ op.collect[2].kind = "return"
    /\ ret.value.results[1].error # Unset
    /\ ret.value.results[2].baseline_updated
    /\ exists(files, op.table_configs[2].table)
    /\ ~exists(files, op.table_configs[1].table)

C25_NoChangeNeverAlerts ==
    (/\ op.name = "check_volume_change"
     /\ op.baseline # None
     /\ op.stats.row_count = op.baseline.row_count) =>
        /\ ret.kind = "return"
        /\ \A i \in DOMAIN ret.value : ret.value[i].status = "PASS"

(***************************************************************************)
(* Properties of the baseline across saves, runs and deletes.              *)
(***************************************************************************)

\* C26: after a save call returns, having written or having skipped, load
\* returns for the table of the statistics a baseline whose row_count and
\* schema are those of the statistics.
C26_StoredReflectsLastSave ==
    [][(op'.name = "save" /\ ret'.kind = "return") =>
        LET loaded == load(files', op'.stats.table_name) IN
        /\ loaded.kind = "return"
        /\ loaded.value # None
        /\ loaded.value.row_count = op'.stats.row_count
        /\ loaded.value.schema = op'.stats.schema
    ]_vars

\* C26 witness: a save that skipped the write left a record written at
\* another collection time, which load returns with the row_count and the
\* schema of the skipped statistics.
C26_Witness ==
    /\ op.name = "save"
    /\ ret = Return(FALSE)
    /\ load(files, op.table_name).value.run_at # op.stats.collected_at
    /\ load(files, op.table_name).value.run_count = 2
    /\ load(files, op.table_name).value.schema = op.stats.schema

C28_TypeChangeIsNotDrift ==
    [][(op'.name = "run" /\ op'.config.run_drift_check) =>
        LET stats    == op'.stats
            baseline == load(files, stats.table_name).value
            drift    == SelectSeq(ret'.value.results, LAMBDA r : r.check = "schema_drift")
        IN (/\ baseline # None
            /\ DOMAIN baseline.schema = { stats.columns[i].name : i \in DOMAIN stats.columns }
            /\ DOMAIN baseline.schema = DOMAIN stats.schema
            /\ baseline.row_count = stats.row_count
            /\ \E c \in DOMAIN stats.schema : baseline.schema[c] # stats.schema[c]) =>
               /\ Len(drift) = 1
               /\ drift[1].status = "PASS"
               /\ ret'.value.baseline_updated
               /\ load(files', stats.table_name).value.run_count = baseline.run_count + 1
               /\ load(files', stats.table_name).value.schema = stats.schema
    ]_vars

\* C28 witness: a run over an existing baseline passed schema drift as
\* unchanged and volume change as stable, and yet replaced the baseline.
C28_Witness ==
    /\ op.name = "run"
    /\ ret.value.baseline_updated
    /\ StoredRunCount(files, op.table_name) > 1
    /\ \E i, k \in DOMAIN ret.value.results :
          /\ ret.value.results[i].check = "schema_drift"
          /\ ret.value.results[i].status = "PASS"
          /\ ret.value.results[i].message[1] = "Schema unchanged. "
          /\ ret.value.results[k].check = "volume_change"
          /\ ret.value.results[k].status = "PASS"

\* C29: a dry-run batch leaves the baseline directory exactly as it was (no
\* record created, rewritten or removed, every run_count kept), every
\* RunResult reports baseline_updated false, the check results of every
\* collected table are those a run gives against the baseline stored
\* before the batch, and the same dry run made again returns the same.
C29_DryRunLeavesStore ==
    [][(op'.name = "cmd_run" /\ op'.dry_run) =>
        LET configs == op'.table_configs
            collect == op'.collect
        IN /\ files' = files
           /\ ret'.kind = "return"
           /\ \A i \in DOMAIN configs :
                 /\ ~ret'.value.results[i].baseline_updated
                 /\ StoredRunCount(files', configs[i].table)
                      = StoredRunCount(files, configs[i].table)
                 /\ collect[i].kind = "return" =>
                      ret'.value.results[i].results
                        = run(files, collect[i].value, configs[i]).ret.value.results
           /\ _cmd_run(files', configs, collect, TRUE).ret = ret'
    ]_vars

\* C29 witness: a dry run over a stored baseline reported a volume change
\* or a schema drift against it, and the stored record is still there with
\* the run_count it had.
C29_Witness ==
    /\ op.name = "cmd_run"
    /\ op.dry_run
    /\ \E i \in DOMAIN op.table_configs :
          /\ op.collect[i].kind = "return"
          /\ StoredRunCount(files, op.table_configs[i].table) >= 1
          /\ load(files, op.table_configs[i].table).value.row_count
               # op.collect[i].value.row_count
          /\ ~ret.value.results[i].baseline_updated
          /\ \E k \in DOMAIN ret.value.results[i].results :
                /\ ret.value.results[i].results[k].check = "volume_change"
                /\ ret.value.results[i].results[k].status # "PASS"

\* C30: delete returns true exactly when a record of the table existed;
\* afterwards load gives no baseline and exists is false for the table, and
\* load and exists give what they gave before for every table of another
\* name; a save of the table made directly after its delete writes
\* (returns true) and leaves run_count 1.
C30_DeleteRemovesOnlyItsRecord ==
    [][/\ op'.name = "delete" =>
            /\ ret' = Return(exists(files, op'.table_name))
            /\ load(files', op'.table_name) = Return(None)
            /\ ~exists(files', op'.table_name)
            /\ \A other \in TableNames :
                   other # op'.table_name =>
                       /\ load(files', other) = load(files, other)
                       /\ exists(files', other) = exists(files, other)
       /\ (/\ op.name = "delete"
           /\ op'.name = "save"
           /\ op'.table_name = op.table_name
           /\ ret'.kind = "return") =>
            /\ ret' = Return(TRUE)
            /\ load(files', op'.table_name).value.run_count = 1
    ]_vars

====
